---- MODULE Spec2Model ----
(***************************************************************************)
(* A model of function_app.py: the three Azure Functions of the image      *)
(* gallery (upload_image, list_images, resize_image) over one blob         *)
(* container.                                                              *)
(*                                                                         *)
(* Strings are sequences of tokens: a blob name such as                    *)
(* "thumbnails/20260101_000001_0a1b2c3d.jpg" is                            *)
(* <<"thumbnails/", "20260101_000001", "_", "0a1b2c3d", ".", "jpg">>, so   *)
(* that an f-string is \o and str.startswith compares the first token.     *)
(*                                                                         *)
(* func.HttpResponse(func.HttpResponse.mimetype=..., ...) at lines 125 and *)
(* 221 is read as func.HttpResponse(mimetype=..., ...): as written the     *)
(* keyword is not an identifier and the file does not compile.             *)
(***************************************************************************)
EXTENDS Integers, Sequences, FiniteSets, TLC

VARIABLES
    containerExists,  \* whether container 'images' exists in the account
    store,            \* blob name -> blob, the blobs of container 'images'
    now,              \* the clock, in seconds
    events,           \* blob names whose write the blob trigger has yet to deliver
    last              \* the last invocation: its inputs and what it returned

vars == <<containerExists, store, now, events, last>>

(***************************** bounds **************************************)

MaxUploads == 2
MaxClock == 1
MaxChain == 2
MaxW == 300
MaxH == 12
MaxList == 3
MaxTime == 11

(***************************** strings *************************************)

Pad2(n) == IF n < 10 THEN "0" \o ToString(n) ELSE ToString(n)

\* datetime.now().strftime('%Y%m%d_%H%M%S')
strftime(t) == <<"20260101_0000" \o Pad2(t)>>

\* str.startswith
startswith(s, prefix) ==
    /\ Len(s) >= Len(prefix)
    /\ SubSeq(s, 1, Len(prefix)) = prefix

\* str.lower, on the tokens file names are made of
LowerToken(t) ==
    CASE t = "JPG" -> "jpg"
      [] t = "Png" -> "png"
      [] t = "PDF" -> "pdf"
      [] OTHER -> t

lower(s) == [i \in 1..Len(s) |-> LowerToken(s[i])]

RECURSIVE LastIndexOf(_, _, _)
\* str.rfind of one token among s[1..i]; 0 when absent
LastIndexOf(s, tok, i) ==
    IF i = 0 THEN 0
    ELSE IF s[i] = tok THEN i
    ELSE LastIndexOf(s, tok, i - 1)

\* os.path.splitext(p)[1]: from the last dot of the last path component,
\* unless only dots precede it there
splitext_ext(p) ==
    LET sepIndex == LastIndexOf(p, "/", Len(p))
        dotIndex == LastIndexOf(p, ".", Len(p))
    IN  IF dotIndex > sepIndex
           /\ \E i \in (sepIndex + 1)..(dotIndex - 1) : p[i] /= "."
        THEN SubSeq(p, dotIndex, Len(p))
        ELSE <<>>

(***************************** storage *************************************)

CONTAINER_NAME == <<"images/">>

\* the container with no blob in it
NoBlobs == [k \in {} |-> {}]

Exists(st, key) == key \in DOMAIN st

\* BlobClient.url
Url(key) == <<"https://account.blob/">> \o CONTAINER_NAME \o key

\* BlobClient.upload_blob(data, overwrite=True, content_settings=...)
PutBlob(st, key, data, contentType, t) ==
    [k \in DOMAIN st \cup {key} |->
        IF k = key
        THEN [size |-> data.size, img |-> data.img,
              contentType |-> contentType, lastModified |-> t]
        ELSE st[k]]

\* the blobs list_images shows: those not under thumbnails/
Originals(st) == {k \in DOMAIN st : ~startswith(k, <<"thumbnails/">>)}

Start == [op |-> "none"]

Undecodable == [ok |-> FALSE, w |-> 0, h |-> 0, mode |-> "none"]

Picture(w, h, mode) == [ok |-> TRUE, w |-> w, h |-> h, mode |-> mode]

(***************************** upload_image ********************************)

MaxUploadBytes == 10 * 1024 * 1024

\* a seventh extension slipped into the list
allowed_extensions_with_pdf ==
    { <<".", "jpg">>, <<".", "jpeg">>, <<".", "png">>,
      <<".", "gif">>, <<".", "webp">>, <<".", "bmp">>, <<".", "pdf">> }

allowed_extensions ==
    { <<".", "jpg">>, <<".", "jpeg">>, <<".", "png">>,
      <<".", "gif">>, <<".", "webp">>, <<".", "bmp">> }

content_type_mapping(ext) ==
    CASE ext = <<".", "jpg">> -> "image/jpeg"
      [] ext = <<".", "jpeg">> -> "image/jpeg"
      [] ext = <<".", "png">> -> "image/png"
      [] ext = <<".", "gif">> -> "image/gif"
      [] ext = <<".", "webp">> -> "image/webp"
      [] ext = <<".", "bmp">> -> "image/bmp"
      [] OTHER -> "application/octet-stream"

\* `not file_data`: the field is absent, or its FileStorage has no file name
NoFile(req) == ~req.present \/ req.file.filename = <<>>

file_extension(req) == lower(splitext_ext(req.file.filename))

ExtensionAllowed(req) == file_extension(req) \in allowed_extensions

\* `>=` for `>` at line 68
SizeAllowedBelowLimit(req) == ~(req.file.content.size >= MaxUploadBytes)

SizeAllowed(req) == ~(req.file.content.size > MaxUploadBytes)

\* f"{timestamp}_{unique_id}{file_extension}"
safe_filename(t, uuid, ext) == strftime(t) \o <<"_">> \o <<uuid>> \o ext

\* ensure_container_exists without its try/except
ensure_container_exists_unguarded(exists, outcome) ==
    [exists |-> IF outcome = "ok" THEN TRUE ELSE exists,
     raised |-> outcome /= "ok"]

\* ensure_container_exists: whether the container exists when it returns,
\* and whether it raised. outcome names the storage call that raises, if any;
\* the except clause logs the exception and the function returns.
ensure_container_exists(exists, outcome) ==
    [exists |-> IF outcome = "exists_raises" THEN exists
                ELSE IF ~exists
                     THEN (IF outcome = "create_raises" THEN exists ELSE TRUE)
                     ELSE exists,
     raised |-> FALSE]

\* upload_blob raises when the container is missing or the service fails
UploadBlobRaises(exists, outcome) == ~exists \/ outcome = "raises"

Response(status, body) == [status |-> status, body |-> body]

\* What upload_image does with one request: the response, the container
\* and the store after it, and the blob names it wrote.
UploadResult(req, uuid, ensure, write, exists, st, t) ==
    IF NoFile(req)
    THEN [resp |-> Response(400, [error |-> "Aucun fichier fourni"]),
          containerExists |-> exists, store |-> st, wrote |-> {}]
    ELSE IF ~ExtensionAllowed(req)
    THEN [resp |-> Response(400, [error |-> "Type de fichier non autorise"]),
          containerExists |-> exists, store |-> st, wrote |-> {}]
    ELSE IF ~SizeAllowed(req)
    THEN [resp |-> Response(400, [error |-> "Fichier trop volumineux"]),
          containerExists |-> exists, store |-> st, wrote |-> {}]
    ELSE
      LET ext == file_extension(req)
          key == safe_filename(t, uuid, ext)
          ensured == ensure_container_exists(exists, ensure)
          exists2 == ensured.exists
      IN  IF ensured.raised \/ UploadBlobRaises(exists2, write)
          THEN [resp |-> Response(500, [error |-> "Erreur lors du televersement"]),
                containerExists |-> exists2, store |-> st, wrote |-> {}]
          ELSE [resp |-> Response(200,
                    [success |-> TRUE,
                     filename |-> key,
                     original_filename |-> req.file.filename,
                     url |-> Url(key),
                     size |-> req.file.content.size,
                     timestamp |-> strftime(t)]),
                containerExists |-> exists2,
                store |-> PutBlob(st, key, req.file.content,
                                  content_type_mapping(ext), t),
                wrote |-> {key}]

upload_image(req, uuid, ensure, write) ==
    LET r == UploadResult(req, uuid, ensure, write, containerExists, store, now)
    IN  /\ last = Start
        /\ Cardinality(Originals(store)) < MaxUploads
        /\ containerExists' = r.containerExists
        /\ store' = r.store
        /\ events' = events \cup r.wrote
        /\ last' = [op |-> "upload", req |-> req,
                    env |-> [uuid |-> uuid, ensure |-> ensure, write |-> write],
                    before |-> [containerExists |-> containerExists,
                                store |-> store, now |-> now],
                    status |-> r.resp.status, body |-> r.resp.body,
                    wrote |-> r.wrote]
        /\ UNCHANGED now

(***************************** resize_image ********************************)

\* thumbnail_size = (256, 256)
thumbnail_size == [w |-> 256, h |-> 256]

WHITE == <<255, 255, 255>>

FloorDiv(a, b) == a \div b

CeilDiv(a, b) == -((-a) \div b)

Abs(x) == IF x < 0 THEN -x ELSE x

\* Image.thumbnail's round_aspect for a landscape image: of floor and ceiling
\* of x*H/W the one whose x/n is nearest the aspect W/H (the floor on a tie;
\* n = 0 has key 0), and at least 1
RoundAspectHeight(x, W, H) ==
    LET lo == FloorDiv(x * H, W)
        hi == CeilDiv(x * H, W)
        \* |W/H - x/n| on the common denominator H*lo*hi
        errLo == Abs(W * lo - x * H) * hi
        errHi == Abs(W * hi - x * H) * lo
        n == IF lo = 0 THEN lo ELSE IF errLo <= errHi THEN lo ELSE hi
    IN  IF n > 1 THEN n ELSE 1

\* round_aspect for a portrait or square image: of floor and ceiling of
\* y*W/H the one whose n/y is nearest W/H (the floor on a tie), at least 1
RoundAspectWidth(y, W, H) ==
    LET lo == FloorDiv(y * W, H)
        hi == CeilDiv(y * W, H)
        errLo == Abs(W * y - lo * H)
        errHi == Abs(W * y - hi * H)
        n == IF errLo <= errHi THEN lo ELSE hi
    IN  IF n > 1 THEN n ELSE 1

\* a resize that also enlarges: the image is always scaled to the box
ThumbnailSizeUpscaling(W, H) ==
    IF thumbnail_size.w * H >= W * thumbnail_size.h
    THEN [w |-> RoundAspectWidth(thumbnail_size.h, W, H), h |-> thumbnail_size.h]
    ELSE [w |-> thumbnail_size.w, h |-> RoundAspectHeight(thumbnail_size.w, W, H)]

\* img.thumbnail(thumbnail_size, LANCZOS): the size of img after it. An image
\* that fits the box is left alone; otherwise the aspect ratio is kept.
ThumbnailSize(W, H) ==
    LET x == thumbnail_size.w
        y == thumbnail_size.h
    IN  IF x >= W /\ y >= H THEN [w |-> W, h |-> H]
        ELSE IF x * H >= W * y          \* x / y >= aspect
        THEN [w |-> RoundAspectWidth(y, W, H), h |-> y]
        ELSE [w |-> x, h |-> RoundAspectHeight(x, W, H)]

\* lines 266-268: any mode but RGB and RGBA is converted to RGB
ConvertMode(mode) == IF mode \notin {"RGB", "RGBA"} THEN "RGB" ELSE mode

\* lines 270-285: the 256x256 canvas. A canvas is its size, its fill and the
\* box the resized image was pasted into (through its alpha when RGBA).
Compose(img) ==
    LET mode == ConvertMode(img.mode)
        size == ThumbnailSize(img.w, img.h)
        x == (thumbnail_size.w - size.w) \div 2
        y == (thumbnail_size.h - size.h) \div 2
    IN  [w |-> thumbnail_size.w, h |-> thumbnail_size.h, fill |-> WHITE,
         box |-> [x |-> x, y |-> y, w |-> size.w, h |-> size.h],
         masked |-> (mode = "RGBA")]

InBox(box, px, py) ==
    /\ box.x <= px /\ px < box.x + box.w
    /\ box.y <= py /\ py < box.y + box.h

\* the colour of pixel (px, py) of a canvas; "image" stands for the pasted
\* image's own pixel (blended with the fill where it is transparent)
PixelAt(canvas, px, py) ==
    IF InBox(canvas.box, px, py) THEN <<"image">> ELSE canvas.fill

\* new_img.save(output, format='JPEG', quality=85, optimize=True): the bytes
\* of a JPEG that decodes to an RGB image of the canvas's size. Their number
\* depends on the pixels; a nominal one stands for it.
SaveJpeg(canvas) ==
    [size |-> (canvas.w * canvas.h) \div 16,
     img |-> Picture(canvas.w, canvas.h, "RGB")]

\* myblob.name for a blob trigger on path "images/{name}": InputStream.name
\* is the trigger's BlobTrigger metadata, the path of the blob, which starts
\* with its container ("images/20260101_000000_0a1b2c3d.jpg")
BlobTriggerName(key) == CONTAINER_NAME \o key

\* `except ImportError` alone
SwallowedImportErrorOnly(exc) == exc = "ImportError"

\* the except clauses of lines 312-316: ImportError, then every Exception
Swallowed(exc) == exc = "ImportError" \/ exc \in {"UnidentifiedImageError", "StorageError"}

\* What resize_image does for one trigger: what became of it, the store
\* after it and the blob names it wrote.
ResizeResult(key, blob, write, exists, st, t) ==
    LET name == BlobTriggerName(key) IN
    IF startswith(name, <<"thumbnails/">>)
    THEN [outcome |-> "ignored", exc |-> "none", store |-> st, wrote |-> {}]
    ELSE IF ~blob.img.ok
    THEN [outcome |-> "error", exc |-> "UnidentifiedImageError",
          store |-> st, wrote |-> {}]
    ELSE
      LET canvas == Compose(blob.img)
          thumbnail_name == <<"thumbnails/">> \o name
      IN  IF UploadBlobRaises(exists, write)
          THEN [outcome |-> "error", exc |-> "StorageError",
                store |-> st, wrote |-> {}]
          ELSE [outcome |-> "created", exc |-> "none",
                store |-> PutBlob(st, thumbnail_name, SaveJpeg(canvas),
                                  "image/jpeg", t),
                wrote |-> {thumbnail_name}]

\* how many generator writes lie behind a blob name: resize_image is not
\* run for a blob MaxChain writes deep
RECURSIVE Generation(_)
Generation(key) ==
    IF key = <<>> THEN 0
    ELSE (IF Head(key) = "thumbnails/" THEN 1 ELSE 0) + Generation(Tail(key))

resize_image(key, write) ==
    LET r == ResizeResult(key, store[key], write, containerExists, store, now)
    IN  /\ last = Start
        /\ key \in events
        /\ Generation(key) < MaxChain
        /\ store' = r.store
        /\ events' = (events \ {key}) \cup r.wrote
        /\ last' = [op |-> "resize", key |-> key, name |-> BlobTriggerName(key),
                    env |-> [write |-> write],
                    before |-> [containerExists |-> containerExists,
                                store |-> store, now |-> now],
                    outcome |-> r.outcome,
                    raised |-> (r.exc /= "none" /\ ~Swallowed(r.exc)),
                    wrote |-> r.wrote]
        /\ UNCHANGED <<containerExists, now>>

(***************************** list_images *********************************)

\* a blob without last_modified
NoTime == -1

\* JSON null
Null == <<-1>>

\* seconds written without their leading zero
isoformat_unpadded(t) == IF t < 10 THEN <<t>> ELSE <<t \div 10, t % 10>>

\* datetime.isoformat(), as the digits of its seconds field: every other
\* field is the same for all the times of the model, and each field is
\* zero-padded to its width
isoformat(t) == <<t \div 10, t % 10>>

\* str < str: the order of a sort on strings
RECURSIVE StrLess(_, _)
StrLess(a, b) ==
    IF b = <<>> THEN FALSE
    ELSE IF a = <<>> THEN TRUE
    ELSE IF Head(a) /= Head(b) THEN Head(a) < Head(b)
    ELSE StrLess(Tail(a), Tail(b))

\* key=lambda x: x['lastModified'] if x['lastModified'] else ''
SortKey(x) == IF x.lastModified = Null THEN <<>> ELSE x.lastModified

RECURSIVE InsertDescending(_, _)
\* x into a list in descending order, after the entries not below it
InsertDescending(sorted, x) ==
    IF sorted = <<>> THEN <<x>>
    ELSE IF StrLess(SortKey(Head(sorted)), SortKey(x))
    THEN <<x>> \o sorted
    ELSE <<Head(sorted)>> \o InsertDescending(Tail(sorted), x)

RECURSIVE SortFrom(_, _)
SortFrom(sorted, rest) ==
    IF rest = <<>> THEN sorted
    ELSE SortFrom(InsertDescending(sorted, Head(rest)), Tail(rest))

\* images.sort(key=..., reverse=True): descending and stable
SortImages(images) == SortFrom(<<>>, images)

\* the thumbnail's URL without looking the thumbnail up
thumbnail_url_unchecked(blob_name, st, lookupRaises) ==
    Url(<<"thumbnails/">> \o blob_name)

\* lines 184-197: get_blob_properties of the thumbnail raises when the blob
\* is missing, or when the service fails (lookupRaises); the bare except
\* then takes the original's URL
thumbnail_url(blob_name, st, lookupRaises) ==
    LET thumbnail_name == <<"thumbnails/">> \o blob_name
    IN  IF Exists(st, thumbnail_name) /\ ~lookupRaises
        THEN Url(thumbnail_name)
        ELSE Url(blob_name)

\* the loop without its `continue`
SkipBlobNever(blob_name) == FALSE

\* lines 173-175: a thumbnail is no entry of its own
SkipBlob(blob_name) == startswith(blob_name, <<"thumbnails/">>)

\* lines 177-205: the entry of one blob
image_info(blob_name, blob, st, lookupRaises) ==
    LET original_url == Url(blob_name)
    IN  [name |-> blob_name,
         originalUrl |-> original_url,
         thumbnailUrl |-> thumbnail_url(blob_name, st, lookupRaises),
         size |-> blob.size,
         lastModified |-> IF blob.lastModified /= NoTime
                          THEN isoformat(blob.lastModified) ELSE Null]

RECURSIVE CollectImages(_, _, _)
\* the loop of lines 170-207 over the listed blob names
CollectImages(blobs, st, failing) ==
    IF blobs = <<>> THEN <<>>
    ELSE LET blob_name == Head(blobs)
             rest == CollectImages(Tail(blobs), st, failing)
         IN  IF SkipBlob(blob_name)
             THEN rest
             ELSE <<image_info(blob_name, st[blob_name], st,
                               blob_name \in failing)>> \o rest

\* What list_images returns; outcome names the storage call that raises, if
\* any, blobs is what list_blobs enumerates.
ListResult(exists, st, outcome, blobs, failing) ==
    IF outcome = "exists_raises"
    THEN Response(500, [error |-> "Erreur lors de la recuperation des images"])
    ELSE IF ~exists
    THEN Response(200, [images |-> <<>>, count |-> 0])
    ELSE IF outcome = "list_raises"
    THEN Response(500, [error |-> "Erreur lors de la recuperation des images"])
    ELSE LET images == SortImages(CollectImages(blobs, st, failing))
         IN  Response(200, [success |-> TRUE, images |-> images,
                            count |-> Len(images)])

list_images(outcome, blobs, failing) ==
    LET r == ListResult(containerExists, store, outcome, blobs, failing)
    IN  /\ last = Start
        /\ last' = [op |-> "list",
                    env |-> [outcome |-> outcome, blobs |-> blobs,
                             failing |-> failing],
                    before |-> [containerExists |-> containerExists,
                                store |-> store, now |-> now],
                    status |-> r.status, body |-> r.body]
        /\ UNCHANGED <<containerExists, store, now, events>>

RECURSIVE SetToSeq(_)
SetToSeq(S) ==
    IF S = {} THEN <<>>
    ELSE LET x == CHOOSE x \in S : TRUE IN <<x>> \o SetToSeq(S \ {x})

RECURSIVE Orders(_)
\* the sequences that list each element of S once
Orders(S) ==
    IF S = {} THEN {<<>>}
    ELSE UNION {{<<x>> \o o : o \in Orders(S \ {x})} : x \in S}

\* container_client.list_blobs(): every blob of the container, once. The
\* order is the service's; the thumbnails, which the loop skips, come last.
list_blobs(st) ==
    {o \o SetToSeq(DOMAIN st \ Originals(st)) : o \in Orders(Originals(st))}

(***************************** the host *************************************)

\* The host takes the invocation's result. Each handler is one atomic step
\* and `last` holds the latest one's record until the host has taken it.
Return ==
    /\ last /= Start
    /\ last' = Start
    /\ UNCHANGED <<containerExists, store, now, events>>

Tick ==
    /\ now < MaxClock
    /\ now' = now + 1
    /\ UNCHANGED <<containerExists, store, events, last>>

(***************************** inputs **************************************)

UUIDs == {"0a1b2c3d", "4e5f6a7b"}

EnsureOutcomes == {"ok", "exists_raises", "create_raises"}

WriteOutcomes == {"ok", "raises"}

FileNames ==
    { <<"photo", ".", "jpg">>, <<"photo", ".", "JPG">>, <<"photo", ".", "jpeg">>,
      <<"photo", ".", "Png">>, <<"photo", ".", "gif">>, <<"photo", ".", "webp">>,
      <<"photo", ".", "bmp">>, <<"doc", ".", "PDF">>, <<"photo">>,
      <<".", "jpg">>, <<"photo", ".", "jpg", ".", "exe">>,
      <<"a", ".", "b", "/", "jpg">>, <<>> }

\* a zero-byte file, a picture of exactly 10 MiB and one a byte larger
EmptyFile == [size |-> 0, img |-> Undecodable]

AtLimit == [size |-> MaxUploadBytes, img |-> Picture(1000, 500, "RGB")]

OverLimit == [size |-> MaxUploadBytes + 1, img |-> Picture(1000, 500, "RGB")]

\* a request with no 'file' field carries nothing
NoFileRequest ==
    [present |-> FALSE,
     file |-> [filename |-> <<>>, content |-> [size |-> 0, img |-> Undecodable]]]

Request(f, c) == [present |-> TRUE, file |-> [filename |-> f, content |-> c]]

UploadRequests ==
    {NoFileRequest, Request(<<"photo", ".", "jpg">>, EmptyFile)}
    \cup {Request(f, c) : f \in FileNames, c \in {AtLimit, OverLimit}}

\* uuid4 and the storage calls come after validation (lines 76, 92): a
\* rejected request meets one environment only
Rejected(req) == NoFile(req) \/ ~ExtensionAllowed(req) \/ ~SizeAllowed(req)

Environments(req, uuids, ensures, writes) ==
    IF Rejected(req)
    THEN {[uuid |-> "0a1b2c3d", ensure |-> "ok", write |-> "ok"]}
    ELSE [uuid : uuids, ensure : ensures, write : writes]

InitStorage ==
    /\ containerExists = FALSE
    /\ store = NoBlobs
    /\ now = 0
    /\ events = {}
    /\ last = Start

UploadStep ==
    \E req \in UploadRequests :
        \E e \in Environments(req, UUIDs, EnsureOutcomes, WriteOutcomes) :
            upload_image(req, e.uuid, e.ensure, e.write)

UploadNext == UploadStep \/ Return \/ Tick

UploadSpec == InitStorage /\ [][UploadNext]_vars

(***************************** the gallery *********************************)

ListOutcomes == {"ok", "exists_raises", "list_raises"}

GalleryRequests ==
    { Request(<<"photo", ".", "jpg">>, AtLimit),
      Request(<<"photo", ".", "Png">>,
              [size |-> 2048, img |-> Picture(100, 50, "RGBA")]),
      Request(<<"photo", ".", "gif">>, EmptyFile),
      Request(<<"doc", ".", "PDF">>, [size |-> 2048, img |-> Undecodable]) }

GalleryUpload ==
    \E req \in GalleryRequests :
        \E e \in Environments(req, {"0a1b2c3d"}, {"ok"}, {"ok"}) :
            upload_image(req, e.uuid, e.ensure, e.write)

ResizeStep ==
    \E key \in events, write \in WriteOutcomes : resize_image(key, write)

ListStep ==
    \E outcome \in ListOutcomes, blobs \in list_blobs(store),
       failing \in SUBSET Originals(store) :
        list_images(outcome, blobs, failing)

Next == GalleryUpload \/ ResizeStep \/ ListStep \/ Return

Spec == InitStorage /\ [][Next]_vars

(***************************** the thumbnail alone *************************)

ImageWidths == (1..MaxW) \cup {512, 1000, 4000}

ImageHeights == (1..MaxH) \cup {255, 256, 257, 300, 512, 1000}

ImageModes == {"RGB", "RGBA", "L"}

InitImage ==
    /\ containerExists = FALSE
    /\ store = NoBlobs
    /\ now = 0
    /\ events = {}
    /\ \E w \in ImageWidths, h \in ImageHeights, mode \in ImageModes :
           last = [op |-> "image", img |-> Picture(w, h, mode)]

\* lines 264-285 on one decoded image
ComposeStep ==
    /\ last.op = "image"
    /\ last' = [op |-> "thumbnail", img |-> last.img,
                canvas |-> Compose(last.img)]
    /\ UNCHANGED <<containerExists, store, now, events>>

ThumbSpec == InitImage /\ [][ComposeStep]_vars

(***************************** the sort alone ******************************)

Times == (0..MaxTime) \cup {NoTime}

RECURSIVE SeqsUpTo(_, _)
SeqsUpTo(S, n) ==
    IF n = 0 THEN {<<>>}
    ELSE LET shorter == SeqsUpTo(S, n - 1)
         IN  shorter \cup {Append(q, x) : q \in {r \in shorter : Len(r) = n - 1}, x \in S}

\* the entries of blobs named by their place, with the given last_modified
EntriesOf(times) ==
    [i \in 1..Len(times) |->
        image_info(<<ToString(i)>>,
                   [size |-> 0, lastModified |-> times[i]], NoBlobs, FALSE)]

InitImages ==
    /\ containerExists = FALSE
    /\ store = NoBlobs
    /\ now = 0
    /\ events = {}
    /\ \E times \in SeqsUpTo(Times, MaxList) :
           last = [op |-> "images", times |-> times, images |-> EntriesOf(times)]

\* line 210 on one list of entries
SortStep ==
    /\ last.op = "images"
    /\ last' = [op |-> "sorted", times |-> last.times,
                images |-> SortImages(last.images)]
    /\ UNCHANGED <<containerExists, store, now, events>>

SortSpec == InitImages /\ [][SortStep]_vars

(***************************** properties **********************************)

TenMiB == 10 * 1024 * 1024

\* the file names of the requests whose extension, lower-cased, is on the
\* allow-list, each with that extension
AllowListed ==
    [f \in { <<"photo", ".", "jpg">>, <<"photo", ".", "JPG">>,
             <<"photo", ".", "jpeg">>, <<"photo", ".", "Png">>,
             <<"photo", ".", "gif">>, <<"photo", ".", "webp">>,
             <<"photo", ".", "bmp">> } |->
        CASE f[3] = "JPG" -> "jpg" [] f[3] = "Png" -> "png" [] OTHER -> f[3]]

IsThumbnailKey(k) == k /= <<>> /\ Head(k) = "thumbnails/"

\* the blobs an invocation created or changed
Written == {k \in DOMAIN store :
                k \notin DOMAIN last.before.store \/ store[k] /= last.before.store[k]}

Unchanged ==
    /\ store = last.before.store
    /\ containerExists = last.before.containerExists

\* k is key `original` behind one or more generator prefixes
EndsWith(k, original) ==
    /\ Len(k) > Len(original)
    /\ SubSeq(k, Len(k) - Len(original) + 1, Len(k)) = original

\* C1: a generator invocation whose triggering key begins with thumbnails/
\* writes nothing, so that one upload has at most one thumbnail written for it
\* and no key begins thumbnails/thumbnails/.
C1_ThumbnailTriggerWritesNothing ==
    /\ (last.op = "resize" /\ IsThumbnailKey(last.key))
           => (last.wrote = {} /\ Unchanged)
    /\ \A k \in DOMAIN store :
           ~IsThumbnailKey(k) =>
               Cardinality({t \in DOMAIN store :
                               IsThumbnailKey(t) /\ EndsWith(t, k)}) <= 1
    /\ \A t \in DOMAIN store :
           ~(Len(t) >= 2 /\ t[1] = "thumbnails/" /\ t[2] = "thumbnails/")

\* C2: an upload with no file field, with an extension off the allow-list or
\* with more than 10 MiB is answered 400 and changes nothing: no blob is
\* written, no container created.
C2_RejectedUploadChangesNothing ==
    (/\ last.op = "upload"
     /\ \/ ~last.req.present
        \/ last.req.file.filename \notin DOMAIN AllowListed
        \/ last.req.file.content.size > TenMiB)
    => /\ last.status = 400
       /\ Unchanged
       /\ last.wrote = {}

C2_Witness ==
    /\ last.op = "upload"
    /\ last.req.present
    /\ last.req.file.filename = <<"doc", ".", "PDF">>
    /\ last.status = 400
    /\ DOMAIN last.before.store /= {}

\* C3: with an allow-listed extension and no storage failure, an upload is
\* answered 200 and writes the one blob {timestamp}_{uuid}{ext} exactly when
\* the file has at most 10 MiB; a byte more is answered 400.
C3_SizeLimitDecidesUpload ==
    (/\ last.op = "upload"
     /\ last.req.present
     /\ last.req.file.filename \in DOMAIN AllowListed
     /\ last.env.ensure = "ok"
     /\ last.env.write = "ok")
    => LET size == last.req.file.content.size
           key == strftime(last.before.now)
                  \o <<"_", last.env.uuid, ".",
                       AllowListed[last.req.file.filename]>>
       IN  IF size <= TenMiB
           THEN /\ last.status = 200
                /\ last.body.filename = key
                /\ last.wrote = {key}
                /\ Written \subseteq {key}
                /\ key \in DOMAIN store
                /\ store[key].size = size
           ELSE /\ last.status = 400
                /\ Unchanged

C3_Witness ==
    /\ last.op = "upload"
    /\ last.status = 200
    /\ last.req.file.content.size = TenMiB
    /\ DOMAIN last.before.store /= {}

\* C4: a listing that meets no storage failure is answered 200 with one entry
\* for each key that does not begin with thumbnails/ and no other entry, count
\* being their number; with no container it is the empty list and count 0.
C4_ListingIsTheOriginals ==
    (last.op = "list" /\ last.env.outcome = "ok")
    => /\ last.status = 200
       /\ LET images == last.body.images
              names == {images[i].name : i \in 1..Len(images)}
          IN  IF containerExists
              THEN /\ names = {k \in DOMAIN store : ~IsThumbnailKey(k)}
                   /\ Len(images) = Cardinality(names)
                   /\ last.body.count = Len(images)
              ELSE /\ images = <<>>
                   /\ last.body.count = 0

C4_Witness ==
    /\ last.op = "list"
    /\ last.status = 200
    /\ last.body.count >= 2
    /\ \E k \in DOMAIN store : IsThumbnailKey(k)

C6_ResizeNeverRaises ==
    last.op = "resize"
    => /\ ~last.raised
       /\ ~last.before.store[last.key].img.ok
              => (Unchanged /\ last.wrote = {})

C6_Witness ==
    /\ last.op = "resize"
    /\ last.outcome = "error"
    /\ ~last.before.store[last.key].img.ok
    /\ last.before.store[last.key].size = 0

\* Python's round(a / b)
RoundHalfEven(a, b) ==
    LET q == a \div b
        r == a % b
    IN  IF 2 * r < b THEN q
        ELSE IF 2 * r > b THEN q + 1
        ELSE IF q % 2 = 0 THEN q ELSE q + 1

\* the pixels checked: the corners, the middle and both sides of each edge
\* of the pasted box
Samples(lo, len) == {0, 128, 255, lo - 1, lo, lo + len - 1, lo + len} \cap (0..255)

OutsideIsWhite(canvas) ==
    LET x == (256 - canvas.box.w) \div 2
        y == (256 - canvas.box.h) \div 2
    IN  /\ canvas.box.x = x
        /\ canvas.box.y = y
        /\ \A px \in Samples(x, canvas.box.w), py \in Samples(y, canvas.box.h) :
               ~(x <= px /\ px < x + canvas.box.w /\ y <= py /\ py < y + canvas.box.h)
                   => PixelAt(canvas, px, py) = <<255, 255, 255>>

\* C7 as claimed: the thumbnail is 256 x 256; if W >= H the content is 256
\* wide and round(H*256/W) high; the pixels outside it are white.
C7_ContentIsRounded ==
    last.op = "thumbnail"
    => /\ last.canvas.w = 256 /\ last.canvas.h = 256
       /\ last.img.w >= last.img.h
              => /\ last.canvas.box.w = 256
                 /\ last.canvas.box.h = RoundHalfEven(last.img.h * 256, last.img.w)
       /\ OutsideIsWhite(last.canvas)

\* C7 amended: the thumbnail is 256 x 256; if W >= H and W > 256 the content
\* is 256 wide and its height is H*256/W rounded down or up, and at least 1; an
\* image of at most 256 x 256 keeps its size; the pixels outside the content,
\* which is centred, are white.
C7_ContentFitsTheBox ==
    last.op = "thumbnail"
    => LET W == last.img.w
           H == last.img.h
           box == last.canvas.box
       IN  /\ last.canvas.w = 256 /\ last.canvas.h = 256
           /\ (W >= H /\ W > 256)
                  => /\ box.w = 256
                     /\ box.h >= 1
                     /\ box.h \in {(H * 256) \div W, -((-(H * 256)) \div W), 1}
                     /\ (H * 256 >= W) => box.h \in {(H * 256) \div W, -((-(H * 256)) \div W)}
           /\ (W <= 256 /\ H <= 256) => (box.w = W /\ box.h = H)
           /\ OutsideIsWhite(last.canvas)

\* a landscape image whose content height is not round(H*256/W) = 7
C7_Witness ==
    /\ last.op = "thumbnail"
    /\ last.img.w = 274 /\ last.img.h = 8
    /\ last.canvas.box.w = 256 /\ last.canvas.box.h = 8

\* the last_modified of an entry of the sorted list
TimeOf(e) == last.times[CHOOSE i \in 1..Len(last.times) : <<ToString(i)>> = e.name]

\* C8: the sorted list holds the same entries, newest first, those without a
\* timestamp after all those with one.
C8_NewestFirst ==
    last.op = "sorted"
    => LET out == last.images
       IN  /\ Len(out) = Len(last.times)
           /\ {out[i].name : i \in 1..Len(out)}
                  = {<<ToString(i)>> : i \in 1..Len(last.times)}
           /\ \A i, j \in 1..Len(out) :
                  i < j =>
                      /\ (TimeOf(out[i]) /= -1 /\ TimeOf(out[j]) /= -1)
                             => TimeOf(out[i]) >= TimeOf(out[j])
                      /\ TimeOf(out[i]) = -1 => TimeOf(out[j]) = -1

C8_Witness ==
    /\ last.op = "sorted"
    /\ last.times = <<9, -1, 10>>
    /\ [i \in 1..3 |-> last.images[i].name] = << <<"3">>, <<"1">>, <<"2">> >>

\* C9: a failure of the container check or creation does not stop the upload:
\* the write is attempted, and the answer is 200 if the write succeeds; a
\* write that fails is answered 500 and leaves no new blob.
C9_ContainerFailureIsNotFatal ==
    (/\ last.op = "upload"
     /\ last.req.present
     /\ last.req.file.filename \in DOMAIN AllowListed
     /\ last.req.file.content.size <= TenMiB)
    => LET containerAtWrite ==
               last.before.containerExists \/ last.env.ensure = "ok"
           writeSucceeds == containerAtWrite /\ last.env.write = "ok"
       IN  IF writeSucceeds
           THEN /\ last.status = 200
                /\ last.body.filename \in DOMAIN store
                /\ last.wrote = {last.body.filename}
           ELSE /\ last.status = 500
                /\ store = last.before.store

C9_Witness ==
    /\ last.op = "upload"
    /\ last.env.ensure = "exists_raises"
    /\ last.status = 200

\* C10: a generator invocation for key k writes thumbnails/k and nothing
\* else, nothing is ever deleted, every key under thumbnails/ is thumbnails/k
\* for an original k of the store, and no upload writes under thumbnails/.
C10_ThumbnailsMirrorOriginals ==
    /\ last.op = "resize"
           => /\ last.wrote \subseteq {<<"thumbnails/">> \o last.key}
              /\ Written \subseteq {<<"thumbnails/">> \o last.key}
    /\ last.op \in {"resize", "upload", "list"}
           => DOMAIN last.before.store \subseteq DOMAIN store
    /\ \A t \in DOMAIN store :
           IsThumbnailKey(t)
               => (Tail(t) \in DOMAIN store /\ ~IsThumbnailKey(Tail(t)))
    /\ last.op = "upload" => \A k \in last.wrote : ~IsThumbnailKey(k)

====
